---- MODULE Spec2Model ----
(***************************************************************************)
(* A model of the resume ranking service of main.py: the three HTTP        *)
(* handlers (/extract-criteria, /get-criteria, /score-resumes), the        *)
(* process-wide list extracted_criteria, and the text helpers the          *)
(* handlers call.                                                          *)
(*                                                                         *)
(* A Python str is a sequence of one-character strings, so that lower(),   *)
(* strip(), endswith(), title(), the substring test and the regular        *)
(* expression of preprocess are computed character by character.           *)
(***************************************************************************)
EXTENDS Integers, Sequences, FiniteSets, TLC

VARIABLES
    extracted_criteria, \* the module-level list of main.py
    request,            \* the request being handled (sequential client)
    response,           \* the response to it, until the client takes it
    lastStored,         \* history: what the last 200 of /extract-criteria stored
    inflight,           \* concurrent /extract-criteria requests: file, pc, response
    writeOrder,         \* history: the requests that wrote the list, in order
    set1, set2, sim,    \* jaccard_similarity: its arguments and its result
    text, criteria,     \* extract_criteria: its argument and its result
    pc                  \* whether the function under study has been applied

vars == <<extracted_criteria, request, response, lastStored, inflight,
          writeOrder, set1, set2, sim, text, criteria, pc>>

\* ------------------------------------------------------------ characters

UpperChars == <<"A","B","C","D","E","F","G","H","I","J","K","L","M",
                "N","O","P","Q","R","S","T","U","V","W","X","Y","Z">>

LowerChars == <<"a","b","c","d","e","f","g","h","i","j","k","l","m",
                "n","o","p","q","r","s","t","u","v","w","x","y","z">>

Digits == {"0","1","2","3","4","5","6","7","8","9"}

Range(s) == {s[i] : i \in DOMAIN s}

Letters == Range(UpperChars) \cup Range(LowerChars)

WordChars == Letters \cup Digits \cup {"_"}

\* c.lower() and c.upper() of the cased characters
LowerOf == [c \in Letters |->
               IF c \in Range(UpperChars)
               THEN LowerChars[CHOOSE i \in DOMAIN UpperChars : UpperChars[i] = c]
               ELSE c]

UpperOf == [c \in Letters |->
               IF c \in Range(LowerChars)
               THEN UpperChars[CHOOSE i \in DOMAIN LowerChars : LowerChars[i] = c]
               ELSE c]

\* str.isspace() of one character
IsSpace(c) == c = " " \/ c = "\n" \/ c = "\t"

\* the class \w of re
IsWordChar(c) == c \in WordChars

IsCased(c) == c \in Letters

char_lower(c) == IF IsCased(c) THEN LowerOf[c] ELSE c

char_upper(c) == IF IsCased(c) THEN UpperOf[c] ELSE c

\* --------------------------------------------------------------- strings

\* str.lower()
str_lower(s) == [i \in 1..Len(s) |-> char_lower(s[i])]

\* str.title(): a cased character is upper case after an uncased one (or at
\* the start), lower case after a cased one
str_title(s) ==
    [i \in 1..Len(s) |->
        IF i > 1 /\ IsCased(s[i - 1]) THEN char_lower(s[i]) ELSE char_upper(s[i])]

RECURSIVE str_lstrip(_)
str_lstrip(s) ==
    IF s # <<>> /\ IsSpace(Head(s)) THEN str_lstrip(Tail(s)) ELSE s

RECURSIVE str_rstrip(_)
str_rstrip(s) ==
    IF s # <<>> /\ IsSpace(s[Len(s)]) THEN str_rstrip(SubSeq(s, 1, Len(s) - 1)) ELSE s

\* str.strip()
str_strip(s) == str_lstrip(str_rstrip(s))

\* sub in s
str_contains(s, sub) ==
    \E i \in 1..(Len(s) - Len(sub) + 1) : SubSeq(s, i, i + Len(sub) - 1) = sub

\* s.endswith(suffix)
str_endswith(s, suffix) ==
    /\ Len(s) >= Len(suffix)
    /\ SubSeq(s, Len(s) - Len(suffix) + 1, Len(s)) = suffix

\* "".join(parts) and sep.join(parts)
RECURSIVE str_join(_, _)
str_join(sep, parts) ==
    IF parts = <<>> THEN <<>>
    ELSE IF Len(parts) = 1 THEN parts[1]
    ELSE parts[1] \o sep \o str_join(sep, Tail(parts))

\* s.split(sep) for a one-character separator: the pieces between separators
RECURSIVE str_split(_, _, _)
str_split(s, sep, cur) ==
    IF s = <<>> THEN <<cur>>
    ELSE IF Head(s) = sep THEN <<cur>> \o str_split(Tail(s), sep, <<>>)
    ELSE str_split(Tail(s), sep, Append(cur, Head(s)))

\* --------------------------------------------------------- nltk, spaCy

\* word_tokenize on text that holds only word characters and white space
\* (what preprocess hands it): the maximal runs of word characters
RECURSIVE word_tokenize(_, _)
word_tokenize(s, cur) ==
    IF s = <<>> THEN (IF cur = <<>> THEN <<>> ELSE <<cur>>)
    ELSE IF IsSpace(Head(s))
         THEN (IF cur = <<>> THEN <<>> ELSE <<cur>>) \o word_tokenize(Tail(s), <<>>)
         ELSE word_tokenize(Tail(s), Append(cur, Head(s)))

\* PorterStemmer.stem: words of one or two letters are returned as they
\* are; of the other words step 1a (the plural endings) is the only step
\* that changes a word of the vocabulary used here
stem(w) ==
    LET lw == str_lower(w)
        n  == Len(lw)
    IN  IF n <= 2 THEN lw
        ELSE IF str_endswith(lw, <<"s","s","e","s">>) THEN SubSeq(lw, 1, n - 2)
        ELSE IF str_endswith(lw, <<"i","e","s">>) THEN SubSeq(lw, 1, n - 2)
        ELSE IF str_endswith(lw, <<"s","s">>) THEN lw
        ELSE IF str_endswith(lw, <<"s">>) THEN SubSeq(lw, 1, n - 1)
        ELSE lw

\* sent_tokenize (Punkt): a sentence ends at '.', '!' or '?' followed by
\* white space and a further token; the white space between two sentences
\* belongs to neither; the first sentence starts at the start of the text
\* (leading white space included); the last one is right-stripped and is
\* dropped when empty
IsSentenceEnd(s, i) ==
    /\ s[i] \in {".", "!", "?"}
    /\ i < Len(s)
    /\ IsSpace(s[i + 1])
    /\ \E j \in (i + 1)..Len(s) : ~IsSpace(s[j])

RECURSIVE sent_slices(_, _, _)
sent_slices(s, last_break, i) ==
    IF i > Len(s)
    THEN LET last == str_rstrip(SubSeq(s, last_break, Len(s)))
         IN  IF last = <<>> THEN <<>> ELSE <<last>>
    ELSE IF IsSentenceEnd(s, i)
         THEN LET next_tok == CHOOSE j \in (i + 1)..Len(s) :
                                  /\ ~IsSpace(s[j])
                                  /\ \A k \in (i + 1)..(j - 1) : IsSpace(s[k])
              IN  <<SubSeq(s, last_break, i)>> \o sent_slices(s, next_tok, next_tok)
         ELSE sent_slices(s, last_break, i + 1)

sent_tokenize(s) == sent_slices(s, 1, 1)

\* ------------------------------------------------------- helper functions

\* extract_text_from_pdf: PdfReader raises on a file it cannot read; the
\* text is the concatenation of the pages' texts
Raised == [raised |-> TRUE]

Returned(v) == [raised |-> FALSE, value |-> v]

extract_text_from_pdf(file) ==
    IF ~file.readable THEN Raised ELSE Returned(str_join(<<>>, file.parts))

\* extract_text_from_docx: Document raises on a file it cannot read; the
\* text is the paragraphs joined by line breaks
extract_text_from_docx(file) ==
    IF ~file.readable THEN Raised ELSE Returned(str_join(<<"\n">>, file.parts))

trigger_phrases == <<
    <<"m","u","s","t"," ","h","a","v","e">>,
    <<"r","e","q","u","i","r","e","d">>,
    <<"q","u","a","l","i","f","i","c","a","t","i","o","n","s">>,
    <<"e","x","p","e","r","i","e","n","c","e">>,
    <<"s","k","i","l","l","s">>,
    <<"c","e","r","t","i","f","i","c","a","t","i","o","n">>,
    <<"p","r","o","f","i","c","i","e","n","t">>,
    <<"k","n","o","w","l","e","d","g","e"," ","o","f">>,
    <<"a","b","i","l","i","t","y"," ","t","o">>,
    <<"d","e","g","r","e","e"," ","i","n">>,
    <<"y","e","a","r","s"," ","o","f">>>>

\* the loop with a sentence kept only the first time it is met
RECURSIVE extract_criteria_loop_dedup(_, _)
extract_criteria_loop_dedup(sentences, acc) ==
    IF sentences = <<>> THEN acc
    ELSE LET sentence       == Head(sentences)
             sentence_lower == str_lower(sentence)
         IN  IF /\ \E k \in DOMAIN trigger_phrases :
                       str_contains(sentence_lower, trigger_phrases[k])
                /\ str_strip(sentence) \notin Range(acc)
             THEN extract_criteria_loop_dedup(Tail(sentences),
                                              Append(acc, str_strip(sentence)))
             ELSE extract_criteria_loop_dedup(Tail(sentences), acc)

\* extract_criteria: the loop over the sentences, kept as a loop
RECURSIVE extract_criteria_loop(_, _)
extract_criteria_loop(sentences, acc) ==
    IF sentences = <<>> THEN acc
    ELSE LET sentence       == Head(sentences)
             sentence_lower == str_lower(sentence)
         IN  IF \E k \in DOMAIN trigger_phrases :
                    str_contains(sentence_lower, trigger_phrases[k])
             THEN extract_criteria_loop(Tail(sentences),
                                        Append(acc, str_strip(sentence)))
             ELSE extract_criteria_loop(Tail(sentences), acc)

extract_criteria(t) == extract_criteria_loop(sent_tokenize(t), <<>>)

\* preprocess: lower case, drop what is neither a word character nor white
\* space, tokenize, stem, and keep the set
preprocess(t) ==
    LET lowered  == str_lower(t)
        stripped == SelectSeq(lowered, LAMBDA c : IsWordChar(c) \/ IsSpace(c))
        tokens   == word_tokenize(stripped, <<>>)
    IN  {stem(tokens[i]) : i \in DOMAIN tokens}

\* A similarity is the fraction num/den (a Python float; 0 is 0/1).
Zero == [num |-> 0, den |-> 1]

\* the intersection over the first set instead of over the union
jaccard_similarity_over_first(s1, s2) ==
    IF s1 \cup s2 # {}
    THEN [num |-> Cardinality(s1 \cap s2),
          den |-> IF s1 = {} THEN 1 ELSE Cardinality(s1)]
    ELSE [num |-> 0, den |-> 1]

jaccard_similarity(s1, s2) ==
    LET intersection == s1 \cap s2
        union        == s1 \cup s2
    IN  IF union # {} THEN [num |-> Cardinality(intersection), den |-> Cardinality(union)]
        ELSE Zero

\* sim > max_sim on fractions
Greater(a, b) == a.num * b.den > b.num * a.den

\* a == b on fractions
Same(a, b) == a.num * b.den = b.num * a.den

\* int(x * 5): the fraction cut off instead of rounded
round5_truncated(x) == (5 * x.num) \div x.den

\* round(x * 5) of Python 3: to the nearest integer, a tie to the even one
round5(x) ==
    LET n == 5 * x.num
        d == x.den
        q == n \div d
        r == n % d
    IN  IF 2 * r > d THEN q + 1
        ELSE IF 2 * r < d THEN q
        ELSE IF q % 2 = 0 THEN q ELSE q + 1

\* the inner loop of score_resumes_endpoint: the largest similarity of the
\* criterion to a sentence, starting from 0
RECURSIVE max_sim_loop(_, _, _)
max_sim_loop(criterion_set, resume_sentences, max_sim) ==
    IF resume_sentences = <<>> THEN max_sim
    ELSE LET sentence_set == preprocess(Head(resume_sentences))
             s            == jaccard_similarity(criterion_set, sentence_set)
         IN  max_sim_loop(criterion_set, Tail(resume_sentences),
                          IF Greater(s, max_sim) THEN s ELSE max_sim)

score_of(criterion, resume_sentences) ==
    round5(max_sim_loop(preprocess(criterion), resume_sentences, Zero))

RECURSIVE SumSeq(_)
SumSeq(s) == IF s = <<>> THEN 0 ELSE Head(s) + SumSeq(Tail(s))

\* ------------------------------------------------------------ the inputs

\* Criteria a client may post, and the sentences job descriptions are made of
CritMustHaveSql == <<"M","u","s","t"," ","h","a","v","e"," ","S","Q","L",".">>

CritYearsOfSql == <<"3"," ","y","e","a","r","s"," ","o","f"," ","S","Q","L",".">>

CritJavaSkills == <<"J","a","v","a"," ","s","k","i","l","l","s",".">>

CritTotalScore == <<"T","o","t","a","l"," ","S","c","o","r","e">>

SentTea == <<"W","e"," ","s","e","l","l"," ","t","e","a",".">>

SentJavaSkillsUpper == <<"J","a","v","a"," ","S","K","I","L","L","S",".">>

\* An uploaded file: its name, whether the PDF/DOCX library can read it, and
\* the texts of its pages (PDF) or paragraphs (DOCX)
ResumeAnn ==
    [filename |-> <<"a","n","n",".","p","d","f">>, readable |-> TRUE,
     parts |-> <<<<"A","n","n"," ","L","e","e","\n">>, <<"K","n","o","w","s"," ","S","Q","L","."," ","J","a","v","a"," ","s","k","i","l","l",".">>>>]

ResumeBob ==
    [filename |-> <<"b","o","b",".","d","o","c","x">>, readable |-> TRUE,
     parts |-> <<<<>>, <<"b","o","b"," ","r","a","y",".">>, <<"J","a","v","a",".">>, <<"S","Q","L",","," ","3"," ","y","e","a","r","s",".">>>>]

CorruptPdf ==
    [filename |-> <<"b","a","d",".","p","d","f">>, readable |-> FALSE, parts |-> <<>>]

TextFile ==
    [filename |-> <<"n","o","t","e","s",".","t","x","t">>, readable |-> TRUE,
     parts |-> <<<<"J","a","v","a"," ","s","k","i","l","l","s",".">>>>]

JdFull ==
    [filename |-> <<"j","d",".","p","d","f">>, readable |-> TRUE,
     parts |-> <<<<"M","u","s","t"," ","h","a","v","e"," ","S","Q","L","."," ","W","e"," ","s","e","l","l"," ","t","e","a","."," ">>, <<"J","a","v","a"," ","s","k","i","l","l","s",".">>>>]

JdYears ==
    [filename |-> <<"j","d",".","d","o","c","x">>, readable |-> TRUE,
     parts |-> <<<<>>, <<"3"," ","y","e","a","r","s"," ","o","f"," ","S","Q","L",".">>>>]

JdNone ==
    [filename |-> <<"t","e","a",".","p","d","f">>, readable |-> TRUE,
     parts |-> <<<<"W","e"," ","s","e","l","l"," ","t","e","a",".">>>>]

ResumeFiles == {ResumeAnn, ResumeBob, CorruptPdf, TextFile}

JDFiles == {JdFull, JdYears, JdNone, CorruptPdf, TextFile}

CriteriaPool == {CritMustHaveSql, CritYearsOfSql, CritJavaSkills, CritTotalScore}

\* nlp(text).ents: the PERSON entities spaCy's model finds, in order
person_ents(t) ==
    IF str_contains(t, <<"A","n","n"," ","L","e","e">>) THEN <<<<"A","n","n"," ","L","e","e">>>> ELSE <<>>

\* nlp(criterion).noun_chunks: the texts of the noun chunks, in order
noun_chunks(criterion) ==
    CASE criterion = CritMustHaveSql -> <<<<"S","Q","L">>>>
      [] criterion = CritYearsOfSql  -> <<<<"3"," ","y","e","a","r","s">>, <<"S","Q","L">>>>
      [] criterion = CritJavaSkills  -> <<<<"J","a","v","a"," ","s","k","i","l","l","s">>>>
      [] criterion = CritTotalScore  -> <<<<"T","o","t","a","l"," ","S","c","o","r","e">>>>
      [] OTHER -> <<>>

RECURSIVE first_nonblank(_)
first_nonblank(lines) ==
    IF lines = <<>> THEN <<"U","n","k","n","o","w","n">>
    ELSE IF str_strip(Head(lines)) # <<>> THEN str_strip(Head(lines))
    ELSE first_nonblank(Tail(lines))

\* extract_name: the first PERSON entity, else the first non-blank line
\* stripped, else "Unknown"
extract_name(t) ==
    IF person_ents(t) # <<>> THEN person_ents(t)[1]
    ELSE first_nonblank(str_split(t, "\n", <<>>))

\* get_column_name: the last noun chunk in title case, else the criterion
get_column_name(criterion) ==
    LET chunks == noun_chunks(criterion)
    IN  IF chunks # <<>> THEN str_title(chunks[Len(chunks)]) ELSE criterion

CandidateName == <<"C","a","n","d","i","d","a","t","e"," ","N","a","m","e">>

TotalScore == <<"T","o","t","a","l"," ","S","c","o","r","e">>

PdfSuffix == <<".","p","d","f">>

DocxSuffix == <<".","d","o","c","x">>

\* --------------------------------------------------------------- bounds

MaxFiles == 2

MaxCriteria == 2

NumRequests == 2

MaxSentences == 3

\* The sequences over S of length lo..hi
SeqsOf(S, lo, hi) == UNION {[1..n -> S] : n \in lo..hi}

\* ------------------------------------------------------------- handlers

\* file.filename.endswith(('.pdf', '.docx'))
supported(file) ==
    str_endswith(file.filename, PdfSuffix) \/ str_endswith(file.filename, DocxSuffix)

\* text = ""; if ...endswith('.pdf'): ... elif ...endswith('.docx'): ...
read_text(file) ==
    IF str_endswith(file.filename, PdfSuffix) THEN extract_text_from_pdf(file)
    ELSE IF str_endswith(file.filename, DocxSuffix) THEN extract_text_from_docx(file)
    ELSE Returned(<<>>)

\* A Python dict: its items in insertion order; d[k] = v overwrites the value
\* of a key it has and appends a key it has not
dict_set(d, k, v) ==
    IF \E i \in DOMAIN d : d[i].key = k
    THEN [i \in DOMAIN d |-> IF d[i].key = k THEN [key |-> k, val |-> v] ELSE d[i]]
    ELSE Append(d, [key |-> k, val |-> v])

dict_keys(d) == [i \in DOMAIN d |-> d[i].key]

\* the loop "for i, score in enumerate(res["scores"])" of one row
RECURSIVE row_scores(_, _, _, _)
row_scores(row, column_names, scores, i) ==
    IF i > Len(scores) THEN row
    ELSE row_scores(dict_set(row, column_names[i], scores[i]), column_names, scores, i + 1)

build_row(res, column_names) ==
    LET named  == dict_set(<<>>, CandidateName, res.name)
        scored == row_scores(named, column_names, res.scores, 1)
    IN  dict_set(scored, TotalScore, res.total)

\* pd.DataFrame(df_data): the columns are the rows' keys in the order they
\* first appear (every row has the keys of the first); no row, no column
DataFrame(df_data) ==
    [columns |-> IF df_data = <<>> THEN <<>> ELSE dict_keys(df_data[1]),
     rows    |-> df_data]

\* the body of the loop over the files, for one supported file
score_file(criteria_list, file_text) ==
    LET resume_sentences == sent_tokenize(file_text)
        scores == [i \in DOMAIN criteria_list |->
                      score_of(criteria_list[i], resume_sentences)]
    IN  [name |-> extract_name(file_text), scores |-> scores, total |-> SumSeq(scores)]

\* the loop over the files: an unsupported name is skipped, an exception of
\* the text extraction leaves the loop and the handler
RECURSIVE score_loop(_, _, _)
score_loop(criteria_list, files, results) ==
    IF files = <<>> THEN Returned(results)
    ELSE IF ~supported(Head(files)) THEN score_loop(criteria_list, Tail(files), results)
    ELSE LET got == read_text(Head(files))
         IN  IF got.raised THEN Raised
             ELSE score_loop(criteria_list, Tail(files),
                             Append(results, score_file(criteria_list, got.value)))

NoReport == [columns |-> <<>>, rows |-> <<>>]

\* score_resumes_endpoint, run by the framework once the form is valid; an
\* exception that leaves the handler is answered 500. The response is the
\* workbook (report); results is the handler's local list, kept for the
\* properties.
score_resumes_endpoint(criteria_list, files) ==
    LET results == score_loop(criteria_list, files, <<>>)
    IN  IF results.raised
        THEN [status |-> 500, report |-> NoReport, has_report |-> FALSE,
              results |-> <<>>]
        ELSE LET column_names == [i \in DOMAIN criteria_list |->
                                     get_column_name(criteria_list[i])]
                 df_data == [r \in DOMAIN results.value |->
                                build_row(results.value[r], column_names)]
             IN  [status |-> 200, report |-> DataFrame(df_data), has_report |-> TRUE,
                  results |-> results.value]

\* the handler falling back on the stored list when the form has no criteria
post_score_resumes_stored(criteria_list, files) ==
    IF criteria_list # <<>> THEN score_resumes_endpoint(criteria_list, files)
    ELSE IF extracted_criteria # <<>>
         THEN score_resumes_endpoint(extracted_criteria, files)
         ELSE [status |-> 422, report |-> NoReport, has_report |-> FALSE,
               results |-> <<>>]

\* POST /score-resumes as the framework serves it: criteria is a required
\* form field (Form(...)), a request without it is answered 422 and the
\* handler does not run
post_score_resumes(criteria_list, files) ==
    IF criteria_list = <<>>
    THEN [status |-> 422, report |-> NoReport, has_report |-> FALSE, results |-> <<>>]
    ELSE score_resumes_endpoint(criteria_list, files)

\* extract_criteria_endpoint after "await file.read()": the text, the
\* criteria, the assignment of the global and the response. The result is
\* the response and the new value of the global.
\* extracted_criteria.extend(...) instead of the assignment
store_criteria_extend(old, new) == old \o new

\* global extracted_criteria; extracted_criteria = extract_criteria(text)
store_criteria(old, new) == new

extract_criteria_endpoint(file, stored) ==
    IF ~supported(file)
    THEN [status |-> 400, criteria |-> <<>>, stored |-> stored]
    ELSE LET got == read_text(file)
         IN  IF got.raised
             THEN [status |-> 500, criteria |-> <<>>, stored |-> stored]
             ELSE LET new == store_criteria(stored, extract_criteria(got.value))
                  IN  [status |-> 200, criteria |-> new, stored |-> new]

\* get_criteria
get_criteria(stored) ==
    IF stored = <<>> THEN [status |-> 404, criteria |-> <<>>]
    ELSE [status |-> 200, criteria |-> stored]

\* ------------------------------------------- one client, request by request

NoRequest == [endpoint |-> "none"]

NoResponse == [status |-> 0]

Never == [stored |-> FALSE, criteria |-> <<>>]

Idle == request = NoRequest /\ response = NoResponse

PureUnused ==
    /\ inflight = <<>> /\ writeOrder = <<>>
    /\ set1 = {} /\ set2 = {} /\ sim = Zero
    /\ text = <<>> /\ criteria = <<>> /\ pc = "none"

Init ==
    /\ extracted_criteria = <<>>
    /\ request = NoRequest
    /\ response = NoResponse
    /\ lastStored = Never
    /\ PureUnused

ExtractCriteria(file) ==
    /\ Idle
    /\ LET r == extract_criteria_endpoint(file, extracted_criteria)
       IN  /\ request' = [endpoint |-> "extract-criteria", file |-> file,
                          stored_before |-> extracted_criteria]
           /\ response' = [status |-> r.status, criteria |-> r.criteria]
           /\ extracted_criteria' = r.stored
           /\ lastStored' = IF r.status = 200
                            THEN [stored |-> TRUE, criteria |-> r.criteria]
                            ELSE lastStored
    /\ UNCHANGED <<inflight, writeOrder, set1, set2, sim, text, criteria, pc>>

GetCriteria ==
    /\ Idle
    /\ request' = [endpoint |-> "get-criteria", stored_before |-> extracted_criteria]
    /\ response' = get_criteria(extracted_criteria)
    /\ UNCHANGED <<extracted_criteria, lastStored, inflight, writeOrder,
                   set1, set2, sim, text, criteria, pc>>

ScoreResumes(criteria_list, files) ==
    /\ Idle
    /\ request' = [endpoint |-> "score-resumes", criteria |-> criteria_list,
                   files |-> files, stored_before |-> extracted_criteria]
    /\ response' = post_score_resumes(criteria_list, files)
    /\ UNCHANGED <<extracted_criteria, lastStored, inflight, writeOrder,
                   set1, set2, sim, text, criteria, pc>>

\* the client takes the response; the next request may follow
Receive ==
    /\ response # NoResponse
    /\ request' = NoRequest
    /\ response' = NoResponse
    /\ UNCHANGED <<extracted_criteria, lastStored, inflight, writeOrder,
                   set1, set2, sim, text, criteria, pc>>

Next ==
    \/ \E file \in JDFiles : ExtractCriteria(file)
    \/ GetCriteria
    \/ \E criteria_list \in SeqsOf(CriteriaPool, 0, MaxCriteria),
          files \in SeqsOf(ResumeFiles, 1, MaxFiles) :
            ScoreResumes(criteria_list, files)
    \/ Receive

Spec == Init /\ [][Next]_vars

\* ------------------------------------------- properties of the one client

Answered(endpoint) == request.endpoint = endpoint /\ response # NoResponse

\* the files of the request the handler scores, in upload order
ScoredFiles == SelectSeq(request.files, supported)

TextOf(file) == read_text(file).value

\* the largest similarity of a criterion to a sentence of the text, as a set
\* maximum (0 when there is no sentence)
MaxSimilarity(criterion, t) ==
    LET sentences == sent_tokenize(t)
        sims == {jaccard_similarity(preprocess(criterion), preprocess(sentences[k])) :
                    k \in DOMAIN sentences}
    IN  IF sims = {} THEN Zero
        ELSE CHOOSE x \in sims : \A y \in sims : ~Greater(y, x)

NoCommonToken(criterion, t) ==
    LET sentences == sent_tokenize(t)
    IN  \A k \in DOMAIN sentences :
            preprocess(criterion) \cap preprocess(sentences[k]) = {}

\* s is round(5 * m): the integer nearest to 5m, the even one on a tie
IsRound5(s, m) ==
    /\ 2 * s * m.den - 10 * m.num <= m.den
    /\ 10 * m.num - 2 * s * m.den <= m.den
    /\ (10 * m.num - 2 * s * m.den = m.den \/ 2 * s * m.den - 10 * m.num = m.den)
           => s % 2 = 0

\* C1: in a report of POST /score-resumes every recorded score is
\* round(5 * m), m the largest Jaccard similarity of the criterion's token
\* set to a sentence's token set (0 without sentences); it is an integer in
\* 0..5, and 0 when the criterion shares no token with any sentence.
C1_ScoreIsRoundedMaxSimilarity ==
    (Answered("score-resumes") /\ response.status = 200) =>
        /\ Len(response.results) = Len(ScoredFiles)
        /\ \A r \in DOMAIN response.results :
               /\ Len(response.results[r].scores) = Len(request.criteria)
               /\ \A i \in DOMAIN request.criteria :
                      LET s == response.results[r].scores[i]
                          t == TextOf(ScoredFiles[r])
                          c == request.criteria[i]
                      IN  /\ s \in 0..5
                          /\ IsRound5(s, MaxSimilarity(c, t))
                          /\ NoCommonToken(c, t) => s = 0

\* a report with a score of 2 for a largest similarity of exactly 1/2 (the
\* tie 2.5), and a score of 0 for a criterion without a common token
C1_Witness ==
    /\ Answered("score-resumes") /\ response.status = 200
    /\ \E r \in DOMAIN response.results, i \in DOMAIN request.criteria :
           /\ response.results[r].scores[i] = 2
           /\ Same(MaxSimilarity(request.criteria[i], TextOf(ScoredFiles[r])),
                   [num |-> 1, den |-> 2])
    /\ \E r \in DOMAIN response.results, i \in DOMAIN request.criteria :
           /\ response.results[r].scores[i] = 0
           /\ NoCommonToken(request.criteria[i], TextOf(ScoredFiles[r]))

\* the r-th row's value under the column at position p
Cell(r, p) == response.report.rows[r][p].val

\* C4: the report of POST /score-resumes has the name column, one column per
\* criterion in criteria order and the total column, and in every row the
\* total equals the sum of the row's criterion columns (stated for a report
\* with at least one row).
C4_OneColumnPerCriterion ==
    (Answered("score-resumes") /\ response.status = 200
        /\ response.report.rows # <<>>) =>
        LET n    == Len(request.criteria)
            cols == response.report.columns
        IN  /\ Len(cols) = n + 2
            /\ cols[1] = CandidateName
            /\ \A i \in 1..n : cols[i + 1] = get_column_name(request.criteria[i])
            /\ cols[n + 2] = TotalScore
            /\ \A r \in DOMAIN response.report.rows :
                   /\ Len(response.report.rows[r]) = n + 2
                   /\ Cell(r, n + 2) = SumSeq([i \in 1..n |-> Cell(r, i + 1)])

\* the supported files of the request the libraries can, and cannot, read
ReadableFiles == SelectSeq(ScoredFiles, LAMBDA f : f.readable)

UnreadableFiles == SelectSeq(ScoredFiles, LAMBDA f : ~f.readable)

\* C5: a batch goes on past a resume whose text extraction fails: the
\* request succeeds with one row per resume scored, in upload order, and
\* fails only when every resume fails.
C5_PartialBatchSucceeds ==
    (Answered("score-resumes") /\ request.criteria # <<>>) =>
        IF ReadableFiles # <<>>
        THEN /\ response.status = 200
             /\ Len(response.report.rows) = Len(ReadableFiles)
             /\ \A r \in DOMAIN response.report.rows :
                    response.results[r].name = extract_name(TextOf(ReadableFiles[r]))
        ELSE UnreadableFiles # <<>> => response.status # 200

\* C6: GET /get-criteria returns the list the last successful
\* /extract-criteria stored, and 404 only when none has stored one; the
\* stored list is what that call stored (the empty list before any).
C6_GetReturnsLastStored ==
    /\ Answered("get-criteria") =>
           IF lastStored.stored
           THEN response.status = 200 /\ response.criteria = lastStored.criteria
           ELSE response.status = 404
    /\ extracted_criteria = lastStored.criteria

C8_InvalidInputIsRejected ==
    /\ (Answered("extract-criteria") /\ ~supported(request.file)) =>
           response.status = 400 /\ extracted_criteria = request.stored_before
    /\ (Answered("score-resumes")
            /\ \/ request.criteria = <<>>
               \/ ScoredFiles = <<>>
               \/ Len(request.files) > 20
               \/ Len(request.criteria) > 15) =>
           response.status \in 400..499 /\ ~response.has_report

\* C9: POST /extract-criteria with a readable PDF/DOCX whose text holds no
\* trigger phrase is answered 500.
C9_EmptyCriteriaIs500 ==
    (Answered("extract-criteria") /\ supported(request.file)
        /\ request.file.readable
        /\ extract_criteria(TextOf(request.file)) = <<>>) =>
        response.status = 500

\* ------------------------------------------------ jaccard_similarity alone

TokenPool == <<<<"s","q","l">>, <<"j","a","v","a">>, <<"s","k","i","l","l">>, <<"y","e","a","r">>, <<"m","u","s","t">>, <<"h","a","v","e">>>>

MaxTokens == 4

Tokens == {TokenPool[i] : i \in 1..MaxTokens}

ServerUnused ==
    /\ extracted_criteria = <<>> /\ request = NoRequest /\ response = NoResponse
    /\ lastStored = Never /\ inflight = <<>> /\ writeOrder = <<>>

InitJaccard ==
    /\ set1 \in SUBSET Tokens
    /\ set2 \in SUBSET Tokens
    /\ sim = Zero
    /\ pc = "start"
    /\ text = <<>> /\ criteria = <<>>
    /\ ServerUnused

Jaccard ==
    /\ pc = "start"
    /\ sim' = jaccard_similarity(set1, set2)
    /\ pc' = "done"
    /\ UNCHANGED <<extracted_criteria, request, response, lastStored, inflight,
                   writeOrder, set1, set2, text, criteria>>

SpecJaccard == InitJaccard /\ [][Jaccard]_vars

\* C2: jaccard_similarity(A, B) = jaccard_similarity(B, A); it is 1 for
\* A = B non-empty, 0 for A and B both empty or disjoint, and always in [0, 1].
C2_JaccardAlgebra ==
    pc = "done" =>
        /\ Same(sim, jaccard_similarity(set2, set1))
        /\ (set1 = set2 /\ set1 # {}) => (sim.num = sim.den /\ sim.den > 0)
        /\ (set1 \cap set2 = {}) => sim.num = 0
        /\ sim.den > 0 /\ 0 <= sim.num /\ sim.num <= sim.den

\* two different overlapping sets of different sizes, a similarity strictly
\* between 0 and 1
C2_Witness ==
    /\ pc = "done"
    /\ Cardinality(set1) < Cardinality(set2)
    /\ set1 \cap set2 # {}
    /\ 0 < sim.num /\ sim.num < sim.den

\* -------------------------------------------------- extract_criteria alone

SentencePool == {CritMustHaveSql, SentTea, SentJavaSkillsUpper, CritYearsOfSql}

\* white space a document's text may start with
Leads == {<<>>, <<"\n", " ">>}

JDTexts ==
    {lead \o str_join(<<" ">>, parts) :
        lead \in Leads, parts \in SeqsOf(SentencePool, 0, MaxSentences)}

InitExtract ==
    /\ text \in JDTexts
    /\ criteria = <<>>
    /\ pc = "start"
    /\ set1 = {} /\ set2 = {} /\ sim = Zero
    /\ ServerUnused

Extract ==
    /\ pc = "start"
    /\ criteria' = extract_criteria(text)
    /\ pc' = "done"
    /\ UNCHANGED <<extracted_criteria, request, response, lastStored, inflight,
                   writeOrder, set1, set2, sim, text>>

SpecExtract == InitExtract /\ [][Extract]_vars

HasTrigger(sentence) ==
    \E k \in DOMAIN trigger_phrases :
        str_contains(str_lower(sentence), trigger_phrases[k])

MatchingSentences(t) == SelectSeq(sent_tokenize(t), HasTrigger)

\* C3 as stated: extract_criteria(text) is exactly the sub-sequence of the
\* text's sentences whose lower-cased form holds a trigger phrase.
C3_ExactSubsequence ==
    pc = "done" => criteria = MatchingSentences(text)

\* C3, amended: extract_criteria(text) is the sub-sequence of the text's
\* sentences whose lower-cased form holds a trigger phrase, each stripped of
\* leading and trailing white space: once per occurrence, in source order,
\* nothing else, and the empty list when no sentence matches.
C3_StrippedSubsequence ==
    pc = "done" =>
        LET matching == MatchingSentences(text)
        IN  /\ Len(criteria) = Len(matching)
            /\ \A i \in DOMAIN matching : criteria[i] = str_strip(matching[i])
            /\ (\A i \in DOMAIN sent_tokenize(text) :
                    ~HasTrigger(sent_tokenize(text)[i])) => criteria = <<>>

\* a text that starts with white space, whose first sentence matches and
\* comes back stripped, with a sentence that does not match dropped and a
\* matching sentence returned twice
C3_Witness ==
    /\ pc = "done"
    /\ Len(criteria) = 2
    /\ Len(sent_tokenize(text)) = 3
    /\ criteria[1] = criteria[2]
    /\ criteria[1] # sent_tokenize(text)[1]
    /\ criteria[1] = str_strip(sent_tokenize(text)[1])

\* ------------------------------- concurrent requests to /extract-criteria

Requests == 1..NumRequests

InitConc ==
    /\ extracted_criteria = <<>>
    /\ inflight \in [Requests -> {[file |-> f, pc |-> "new", status |-> 0,
                                   criteria |-> <<>>] : f \in JDFiles}]
    /\ writeOrder = <<>>
    /\ request = NoRequest /\ response = NoResponse /\ lastStored = Never
    /\ set1 = {} /\ set2 = {} /\ sim = Zero
    /\ text = <<>> /\ criteria = <<>> /\ pc = "none"

\* the handler up to "await file.read()": the check of the file name
Begin(r) ==
    /\ inflight[r].pc = "new"
    /\ inflight' = [inflight EXCEPT ![r] =
           IF supported(inflight[r].file)
           THEN [@ EXCEPT !.pc = "reading"]
           ELSE [@ EXCEPT !.pc = "done", !.status = 400]]
    /\ UNCHANGED <<extracted_criteria, writeOrder, request, response, lastStored,
                   set1, set2, sim, text, criteria, pc>>

\* the handler from "await file.read()" to its return: no await in between,
\* so the event loop runs it as one step
Resume(r) ==
    /\ inflight[r].pc = "reading"
    /\ LET res == extract_criteria_endpoint(inflight[r].file, extracted_criteria)
       IN  /\ inflight' = [inflight EXCEPT ![r] =
                  [@ EXCEPT !.pc = "done", !.status = res.status,
                            !.criteria = res.criteria]]
           /\ extracted_criteria' = res.stored
           /\ writeOrder' = IF res.status = 200 THEN Append(writeOrder, r)
                            ELSE writeOrder
    /\ UNCHANGED <<request, response, lastStored, set1, set2, sim, text,
                   criteria, pc>>

NextConc == \E r \in Requests : Begin(r) \/ Resume(r)

SpecConc == InitConc /\ [][NextConc]_vars

\* what a request's own file yields
OwnCriteria(r) == extract_criteria(TextOf(inflight[r].file))

\* C10: under any interleaving of concurrent /extract-criteria requests the
\* stored list is the initial empty list or the whole result of one request,
\* namely of the request that wrote last, and every response carries the
\* criteria of its own file.
C10_LastWriteWins ==
    /\ extracted_criteria =
           IF writeOrder = <<>> THEN <<>>
           ELSE OwnCriteria(writeOrder[Len(writeOrder)])
    /\ \A r \in Requests :
           (inflight[r].pc = "done" /\ inflight[r].status = 200) =>
               inflight[r].criteria = OwnCriteria(r)

\* both requests done, the second one wrote first, their results differ and
\* are not empty, and the first one's result is what is stored
C10_Witness ==
    /\ \A r \in Requests : inflight[r].pc = "done"
    /\ Len(writeOrder) >= 2
    /\ writeOrder[1] = 2 /\ writeOrder[Len(writeOrder)] = 1
    /\ OwnCriteria(1) # <<>> /\ OwnCriteria(2) # <<>>
    /\ OwnCriteria(1) # OwnCriteria(2)
    /\ extracted_criteria = OwnCriteria(1)
    /\ inflight[2].criteria = OwnCriteria(2)

====
